---- MODULE Spec2Model ----
(***************************************************************************)
(* Funding-rate history clients of the revenue-model repository:           *)
(*   BinanceFuturesFundingClient.get_funding_rate_history (paginated GET), *)
(*   HyperliquidInfoClient.get_funding_history            (single POST),   *)
(*   DeriveFundingClient.get_funding_rate_history         (single POST).   *)
(* One behaviour is one call of one client.  The upstream is the           *)
(* environment: every response is chosen freely from the payload sets      *)
(* below, so rows may arrive in any order, repeat, or precede startTime.   *)
(* Times are milliseconds; a raw rate is the number the venue's string     *)
(* denotes, in units of the smallest rate the model distinguishes.         *)
(***************************************************************************)
EXTENDS Integers, Sequences, FiniteSets, TLC

VARIABLES venue, pc, args, current_start, requests, payloads, rows, result

(* main.py: one refresh cycle (load_raw_funding_data), the three frames it *)
(* passes on, the aligner (prepare_merged_timeseries) and the              *)
(* Hyperliquid-vs-Derive view (render_hl_derive_tab)                       *)
VARIABLES load_pc, attempted, load_exc, df_hl, df_derive, df_binance,
          align_pc, merged, pair_stats

clientvars == <<venue, pc, args, current_start, requests, payloads, rows, result>>

loadvars == <<load_pc, attempted, load_exc>>

framevars == <<df_hl, df_derive, df_binance>>

alignvars == <<align_pc, merged, pair_stats>>

(* hyperliquid.py: one call of get_predicted_funding *)
VARIABLES pred_pc, pred_data, pred_result

predvars == <<pred_pc, pred_data, pred_result>>

(* the ranking engine and the opportunity statistics of the design: the    *)
(* calls made on one input so far, each with what it returned              *)
VARIABLES engine_pc, bp_calls, sum_calls

enginevars == <<engine_pc, bp_calls, sum_calls>>

vars == <<clientvars, loadvars, framevars, alignvars, predvars, enginevars>>

(* ------------------------------ bounds --------------------------------- *)
MaxTime == 2
MaxNegative == 2
MaxRate == 1
MaxLimit == 2
MaxBatch == 2
MaxRequests == 2
MaxLoadRows == 1
MaxAlignTime == 4
MaxAlignRate == 1
MaxObs == 2

(* ------------------------- program constants --------------------------- *)
MaxAllowedLimit == 1000
BpsFactor == 10000
(* the resample step `freq`, in model time units: a grid cell spans two    *)
(* units, so an observation can fall on a grid time or inside a cell       *)
Freq == 2

(* Optional[int]: None is the empty tuple, a given value v is <<v>>. *)
None == <<>>
Some(v) == <<v>>

Times == 0..MaxTime
TimeArgs == (0 - MaxNegative)..MaxTime
Rates == 0..MaxRate
OptTimes == {None} \cup {Some(t) : t \in Times}
OptTimeArgs == {None} \cup {Some(t) : t \in TimeArgs}
Limits == {0} \cup (1..MaxLimit) \cup {MaxAllowedLimit + 1}

(* One raw upstream row: fundingTime/fundingRate (Binance),                *)
(* time/fundingRate (Hyperliquid), timestamp/funding_rate (Derive).        *)
(* ok: every field of the row is present and parses (int(fundingTime),     *)
(* float(fundingRate)).                                                    *)
RawRows == [time : Times, rate : Rates, ok : {TRUE}]

(* A row whose rate string does not parse as a number ("n/a"): its time is *)
(* readable, the value in rate stands for nothing.                         *)
MalformedRows == [time : Times, rate : {0}, ok : {FALSE}]

SeqsUpTo(S, n) == UNION {[1..k -> S] : k \in 0..n}

BinanceColumns == <<"symbol", "funding_time", "funding_rate", "funding_rate_bps", "mark_price">>
HyperliquidColumns == <<"coin", "time", "funding_rate", "funding_rate_bps", "premium", "premium_bps">>
DeriveColumns == <<"instrument_name", "time", "funding_rate", "funding_rate_bps", "period_sec">>

BinanceSymbol == "BTCUSDT"
HyperliquidCoin == "BTC"
DeriveInstrument == "BTC-PERP"

(* ------------------------------ results -------------------------------- *)
NoResult == [kind |-> "none", columns |-> <<>>, rows |-> <<>>, exc |-> "", msg |-> ""]

Frame(cols, rs) == [kind |-> "frame", columns |-> cols, rows |-> rs, exc |-> "", msg |-> ""]

Raise(exc, msg) == [kind |-> "raise", columns |-> <<>>, rows |-> <<>>, exc |-> exc, msg |-> msg]

EmptyFrame_NoColumns(cols) == Frame(<<>>, <<>>)

(* pd.DataFrame(columns=[...]) *)
EmptyFrame(cols) == Frame(cols, <<>>)

(* ------------------------------ helpers -------------------------------- *)
RECURSIVE MaxTimeOf(_)
(* max(int(item["fundingTime"]) for item in batch), batch non-empty *)
MaxTimeOf(batch) ==
  IF Len(batch) = 1 THEN batch[1].time
  ELSE LET m == MaxTimeOf(Tail(batch))
       IN IF batch[1].time >= m THEN batch[1].time ELSE m

NextStart_LastRow(batch) == batch[Len(batch)].time + 1

NextStart_SameTime(batch) == MaxTimeOf(batch)

(* last_time = max(...); next_start = last_time + 1 *)
NextStart(batch) == MaxTimeOf(batch) + 1

RangeExhausted_Never(next_start, end) == FALSE

(* if end_time_ms is not None and next_start > end_time_ms: break *)
RangeExhausted(next_start, end) == end # None /\ next_start > end[1]

ShortBatch_Empty(batch, limit) == Len(batch) < 1

(* if len(batch) < limit: break *)
ShortBatch(batch, limit) == Len(batch) < limit

Extend_Overwrite(rs, batch) == batch

(* rows.extend(batch) *)
Extend(rs, batch) == rs \o batch

(* the derived columns of one row: time from ms, rate as float, rate in bps *)
ToFrameRow(r) == [time |-> r.time, funding_rate |-> r.rate, funding_rate_bps |-> r.rate * BpsFactor]

ToFrameRows(rs) == [i \in 1..Len(rs) |-> ToFrameRow(rs[i])]

RECURSIVE InsertByTime(_, _)
InsertByTime(r, sorted) ==
  IF sorted = <<>> THEN <<r>>
  ELSE IF r.time < sorted[1].time THEN <<r>> \o sorted
       ELSE <<sorted[1]>> \o InsertByTime(r, Tail(sorted))

RECURSIVE SortRec(_, _)
SortRec(rs, acc) ==
  IF rs = <<>> THEN acc ELSE SortRec(Tail(rs), InsertByTime(rs[1], acc))

SortByTime_Unsorted(rs) == rs

(* df.sort_values(<time column>); reset_index(drop=True) *)
SortByTime(rs) == SortRec(rs, <<>>)

(* Series.astype(float) over the whole column: one unparsable value makes  *)
(* the conversion raise ValueError                                         *)
AstypeFloatFails(rs) == \E i \in 1..Len(rs) : ~rs[i].ok

(* lines 81-115: empty typed frame, or the converted rows sorted by time *)
BinanceFrame(rs) ==
  IF rs = <<>> THEN EmptyFrame(BinanceColumns)
  ELSE IF AstypeFloatFails(rs) THEN Raise("ValueError", "float")
  ELSE Frame(BinanceColumns, SortByTime(ToFrameRows(rs)))

(* lines 168-189 *)
HyperliquidFrame(rs) ==
  IF AstypeFloatFails(rs) THEN Raise("ValueError", "float")
  ELSE Frame(HyperliquidColumns, SortByTime(ToFrameRows(rs)))

(* lines 106-125 *)
DeriveFrame(rs) ==
  IF AstypeFloatFails(rs) THEN Raise("ValueError", "float")
  ELSE Frame(DeriveColumns, SortByTime(ToFrameRows(rs)))

BinanceOnFailure_Truncate(rs, exc, msg) == BinanceFrame(rs)

(* lines 59-79 and 117-123: nothing catches what _request raises, so the   *)
(* exception leaves get_funding_rate_history and the rows gathered so far  *)
(* are lost with its frame                                                 *)
BinanceOnFailure(rs, exc, msg) == Raise(exc, msg)

(* --------------------------- argument checks --------------------------- *)
BinanceInvalidLimit_LowerOnly(limit) == limit < 1

BinanceInvalidLimit(limit) == limit < 1 \/ limit > MaxAllowedLimit

BinanceInvalidRange_Never(start, end) == FALSE

BinanceInvalidRange(start, end) == start # None /\ end # None /\ start[1] > end[1]

HyperliquidInvalidRange(start, end) == end # None /\ start > end[1]

DeriveInvalidRange(start, end) == start > end

(* ------------------------------ payloads ------------------------------- *)
(* What one HTTP exchange can deliver.  shape:                             *)
(*   "http_error"  non-2xx or transport failure (raise_for_status raises)  *)
(*   "list"        a JSON array of rows                                    *)
(*   "object"      a JSON object that is not the venue's envelope          *)
(*   "envelope"    {"result": {"funding_rate_history": [rows]}}            *)
(*   "no_history"  {"result": {}}                                          *)
Payload(shape, rs) == [shape |-> shape, rows |-> rs]

BinancePayloads ==
  {Payload("http_error", <<>>), Payload("object", <<>>)}
    \cup {Payload("list", b) : b \in SeqsUpTo(RawRows, MaxLimit)}

HyperliquidPayloads ==
  {Payload("http_error", <<>>), Payload("object", <<>>)}
    \cup {Payload("list", b) : b \in SeqsUpTo(RawRows, MaxBatch)}

DerivePayloads ==
  {Payload("http_error", <<>>), Payload("list", <<>>), Payload("object", <<>>),
   Payload("no_history", <<>>)}
    \cup {Payload("envelope", b) : b \in SeqsUpTo(RawRows, MaxBatch)}

(* Well-shaped payloads in which rows may be malformed *)
AnyRows == RawRows \cup MalformedRows

BinanceRowPayloads == {Payload("list", b) : b \in SeqsUpTo(AnyRows, MaxLimit)}

HyperliquidRowPayloads == {Payload("list", b) : b \in SeqsUpTo(AnyRows, MaxBatch)}

DeriveRowPayloads == {Payload("envelope", b) : b \in SeqsUpTo(AnyRows, MaxBatch)}

(* ------------------------------- state --------------------------------- *)
NoArgs == [start |-> None, end |-> None, limit |-> 0]

ClientIdle ==
  /\ venue = "none"
  /\ pc = "idle"
  /\ args = NoArgs
  /\ current_start = None
  /\ requests = <<>>
  /\ payloads = <<>>
  /\ rows = <<>>
  /\ result = NoResult

LoadIdle ==
  /\ load_pc = "idle"
  /\ attempted = {}
  /\ load_exc = ""

NoFrames ==
  /\ df_hl = NoResult
  /\ df_derive = NoResult
  /\ df_binance = NoResult

NoStats == [kind |-> "none"]

AlignIdle ==
  /\ align_pc = "idle"
  /\ merged = NoResult
  /\ pair_stats = NoStats

PredictedIdle ==
  /\ pred_pc = "idle"
  /\ pred_data = [shape |-> "none", entries |-> <<>>]
  /\ pred_result = NoResult

EngineIdle ==
  /\ engine_pc = "idle"
  /\ bp_calls = <<>>
  /\ sum_calls = <<>>

Init == ClientIdle /\ LoadIdle /\ NoFrames /\ AlignIdle /\ PredictedIdle /\ EngineIdle

Paginated_Always == TRUE

(* line 53: if start_time_ms is None and end_time_ms is None *)
Paginated == args.start # None \/ args.end # None

(* ------------------------------ Binance -------------------------------- *)
(* lines 35-58: argument checks, then the first request is due *)
BinanceCall(start, end, limit) ==
  /\ pc = "idle"
  /\ venue' = "binance"
  /\ args' = [start |-> start, end |-> end, limit |-> limit]
  /\ IF BinanceInvalidLimit(limit)
       THEN /\ result' = Raise("ValueError", "limit")
            /\ pc' = "done"
            /\ UNCHANGED current_start
       ELSE IF BinanceInvalidRange(start, end)
       THEN /\ result' = Raise("ValueError", "range")
            /\ pc' = "done"
            /\ UNCHANGED current_start
       ELSE /\ result' = result
            /\ pc' = "send"
            /\ current_start' = start
  /\ UNCHANGED <<requests, payloads, rows>>
  /\ UNCHANGED <<loadvars, framevars, alignvars, predvars, enginevars>>

BinanceParams_EndOnFirstPage ==
  [instrument |-> BinanceSymbol,
   limit |-> Some(args.limit),
   startTime |-> IF Paginated THEN current_start ELSE None,
   endTime |-> IF Paginated /\ requests = <<>> THEN args.end ELSE None]

(* lines 54 and 60-64: the parameters of one GET *)
BinanceParams ==
  [instrument |-> BinanceSymbol,
   limit |-> Some(args.limit),
   startTime |-> IF Paginated THEN current_start ELSE None,
   endTime |-> IF Paginated THEN args.end ELSE None]

(* lines 55, 66 and 118: self.client.get(endpoint, params=params) *)
BinanceRequest ==
  /\ pc = "send"
  /\ venue = "binance"
  /\ Len(requests) < MaxRequests
  /\ requests' = Append(requests, BinanceParams)
  /\ pc' = "wait"
  /\ UNCHANGED <<venue, args, current_start, payloads, rows, result>>
  /\ UNCHANGED <<loadvars, framevars, alignvars, predvars, enginevars>>

(* lines 119-123, then 56 or 67-79, then 81-115 when the loop is left.     *)
(* The endpoint caps one response at the requested limit.                  *)
BinanceResponse(p) ==
  /\ pc = "wait"
  /\ venue = "binance"
  /\ Len(p.rows) <= args.limit
  /\ payloads' = Append(payloads, p)
  /\ IF p.shape = "http_error"
       THEN /\ result' = BinanceOnFailure(rows, "HTTPStatusError", "status")
            /\ pc' = "done"
            /\ UNCHANGED <<rows, current_start>>
     ELSE IF p.shape # "list"
       THEN /\ result' = BinanceOnFailure(rows, "RuntimeError", "format")
            /\ pc' = "done"
            /\ UNCHANGED <<rows, current_start>>
     ELSE IF ~Paginated
       THEN /\ rows' = Extend(rows, p.rows)
            /\ result' = BinanceFrame(rows')
            /\ pc' = "done"
            /\ UNCHANGED current_start
     ELSE IF p.rows = <<>>
       THEN /\ rows' = rows
            /\ result' = BinanceFrame(rows')
            /\ pc' = "done"
            /\ UNCHANGED current_start
     ELSE /\ rows' = Extend(rows, p.rows)
          /\ IF ShortBatch(p.rows, args.limit) \/ RangeExhausted(NextStart(p.rows), args.end)
               THEN /\ result' = BinanceFrame(rows')
                    /\ pc' = "done"
                    /\ UNCHANGED current_start
               ELSE /\ current_start' = Some(NextStart(p.rows))
                    /\ pc' = "send"
                    /\ UNCHANGED result
  /\ UNCHANGED <<venue, args, requests>>
  /\ UNCHANGED <<loadvars, framevars, alignvars, predvars, enginevars>>

(* ----------------------------- Hyperliquid ----------------------------- *)
(* lines 140-154: argument checks, payload, POST /info *)
HyperliquidCall(start, end) ==
  /\ pc = "idle"
  /\ venue' = "hyperliquid"
  /\ args' = [start |-> Some(start), end |-> end, limit |-> 0]
  /\ IF start < 0
       THEN /\ result' = Raise("ValueError", "negative")
            /\ pc' = "done"
            /\ requests' = requests
       ELSE IF HyperliquidInvalidRange(start, end)
       THEN /\ result' = Raise("ValueError", "range")
            /\ pc' = "done"
            /\ requests' = requests
       ELSE /\ result' = result
            /\ pc' = "wait"
            /\ requests' = Append(requests,
                 [instrument |-> HyperliquidCoin, limit |-> None,
                  startTime |-> Some(start), endTime |-> end])
  /\ UNCHANGED <<current_start, payloads, rows>>
  /\ UNCHANGED <<loadvars, framevars, alignvars, predvars, enginevars>>

(* lines 192-194, then 156-189 *)
HyperliquidResponse(p) ==
  /\ pc = "wait"
  /\ venue = "hyperliquid"
  /\ payloads' = Append(payloads, p)
  /\ pc' = "done"
  /\ IF p.shape = "http_error"
       THEN /\ result' = Raise("HTTPStatusError", "status")
            /\ rows' = rows
     ELSE IF p.shape # "list" \/ p.rows = <<>>
       THEN /\ result' = EmptyFrame(HyperliquidColumns)
            /\ rows' = rows
     ELSE /\ rows' = p.rows
          /\ result' = HyperliquidFrame(rows')
  /\ UNCHANGED <<venue, args, current_start, requests>>
  /\ UNCHANGED <<loadvars, framevars, alignvars, predvars, enginevars>>

(* ------------------------------- Derive -------------------------------- *)
(* lines 62-88: defaults (end = now, start = 0), checks, payload, POST *)
DeriveCall(start, end, now) ==
  /\ pc = "idle"
  /\ venue' = "derive"
  /\ LET e == IF end = None THEN now ELSE end[1]
         s == IF start = None THEN 0 ELSE start[1]
     IN /\ args' = [start |-> start, end |-> end, limit |-> 0]
        /\ IF s < 0
             THEN /\ result' = Raise("ValueError", "negative")
                  /\ pc' = "done"
                  /\ requests' = requests
             ELSE IF DeriveInvalidRange(s, e)
             THEN /\ result' = Raise("ValueError", "range")
                  /\ pc' = "done"
                  /\ requests' = requests
             ELSE /\ result' = result
                  /\ pc' = "wait"
                  /\ requests' = Append(requests,
                       [instrument |-> DeriveInstrument, limit |-> None,
                        startTime |-> Some(s), endTime |-> Some(e)])
  /\ UNCHANGED <<current_start, payloads, rows>>
  /\ UNCHANGED <<loadvars, framevars, alignvars, predvars, enginevars>>

(* lines 128-130, then 90-125 *)
DeriveResponse(p) ==
  /\ pc = "wait"
  /\ venue = "derive"
  /\ payloads' = Append(payloads, p)
  /\ pc' = "done"
  /\ IF p.shape = "http_error"
       THEN /\ result' = Raise("HTTPStatusError", "status")
            /\ rows' = rows
     ELSE IF p.shape # "envelope" \/ p.rows = <<>>
       THEN /\ result' = EmptyFrame(DeriveColumns)
            /\ rows' = rows
     ELSE /\ rows' = p.rows
          /\ result' = DeriveFrame(rows')
  /\ UNCHANGED <<venue, args, current_start, requests>>
  /\ UNCHANGED <<loadvars, framevars, alignvars, predvars, enginevars>>

Next ==
  \/ \E start \in OptTimes, end \in OptTimes, limit \in Limits : BinanceCall(start, end, limit)
  \/ BinanceRequest
  \/ \E p \in BinancePayloads : BinanceResponse(p)
  \/ \E start \in TimeArgs, end \in OptTimeArgs : HyperliquidCall(start, end)
  \/ \E p \in HyperliquidPayloads : HyperliquidResponse(p)
  \/ \E start \in OptTimeArgs, end \in OptTimeArgs, now \in Times : DeriveCall(start, end, now)
  \/ \E p \in DerivePayloads : DeriveResponse(p)

Spec == Init /\ [][Next]_vars

(* The same calls against an upstream whose well-shaped batches may hold   *)
(* malformed rows.                                                         *)
NextMalformed ==
  \/ \E start \in OptTimes, end \in OptTimes, limit \in Limits : BinanceCall(start, end, limit)
  \/ BinanceRequest
  \/ \E p \in BinanceRowPayloads : BinanceResponse(p)
  \/ \E start \in TimeArgs, end \in OptTimeArgs : HyperliquidCall(start, end)
  \/ \E p \in HyperliquidRowPayloads : HyperliquidResponse(p)
  \/ \E start \in OptTimeArgs, end \in OptTimeArgs, now \in Times : DeriveCall(start, end, now)
  \/ \E p \in DeriveRowPayloads : DeriveResponse(p)

SpecMalformed == Init /\ [][NextMalformed]_vars

(* ------------------- one refresh cycle (main.py) ----------------------- *)
(* INSTRUMENT_MAPPING has the single key "BTC" *)
SupportedCoins == {"BTC"}

Coins == {"BTC", "ETH"}

AllVenues == {"hyperliquid", "derive", "binance"}

(* What a client call made by the cycle can end in: one of its frames, or  *)
(* an exception (transport/HTTP failure, unparsable rate, and for Binance  *)
(* a payload that is not a list).  The range checks cannot fail here:      *)
(* start = now - days and end = now.                                       *)
LoadRows == SeqsUpTo(AnyRows, MaxLoadRows) \ {<<>>}

HyperliquidOutcomes ==
  {Raise("HTTPStatusError", "status"), EmptyFrame(HyperliquidColumns)}
    \cup {HyperliquidFrame(rs) : rs \in LoadRows}

DeriveOutcomes ==
  {Raise("HTTPStatusError", "status"), EmptyFrame(DeriveColumns)}
    \cup {DeriveFrame(rs) : rs \in LoadRows}

BinanceOutcomes ==
  {Raise("HTTPStatusError", "status"), Raise("RuntimeError", "format")}
    \cup {BinanceFrame(rs) : rs \in SeqsUpTo(AnyRows, MaxLoadRows)}

(* lines 24-33 *)
LoadCall(coin) ==
  /\ load_pc = "idle"
  /\ IF coin \notin SupportedCoins
       THEN /\ load_pc' = "raised"
            /\ load_exc' = "ValueError"
       ELSE /\ load_pc' = "hl"
            /\ load_exc' = load_exc
  /\ UNCHANGED <<attempted, clientvars, framevars, alignvars, predvars, enginevars>>

(* lines 35-39: an exception of the call is not caught and leaves           *)
(* load_raw_funding_data                                                    *)
LoadHyperliquid(o) ==
  /\ load_pc = "hl"
  /\ attempted' = attempted \cup {"hyperliquid"}
  /\ IF o.kind = "raise"
       THEN /\ load_pc' = "raised"
            /\ load_exc' = o.exc
            /\ UNCHANGED df_hl
       ELSE /\ load_pc' = "derive"
            /\ df_hl' = o
            /\ UNCHANGED load_exc
  /\ UNCHANGED <<df_derive, df_binance, clientvars, alignvars, predvars, enginevars>>

(* lines 41-45 *)
LoadDerive(o) ==
  /\ load_pc = "derive"
  /\ attempted' = attempted \cup {"derive"}
  /\ IF o.kind = "raise"
       THEN /\ load_pc' = "raised"
            /\ load_exc' = o.exc
            /\ UNCHANGED df_derive
       ELSE /\ load_pc' = "binance"
            /\ df_derive' = o
            /\ UNCHANGED load_exc
  /\ UNCHANGED <<df_hl, df_binance, clientvars, alignvars, predvars, enginevars>>

(* lines 47-53 *)
LoadBinance(o) ==
  /\ load_pc = "binance"
  /\ attempted' = attempted \cup {"binance"}
  /\ IF o.kind = "raise"
       THEN /\ load_pc' = "raised"
            /\ load_exc' = o.exc
            /\ UNCHANGED df_binance
       ELSE /\ load_pc' = "returned"
            /\ df_binance' = o
            /\ UNCHANGED load_exc
  /\ UNCHANGED <<df_hl, df_derive, clientvars, alignvars, predvars, enginevars>>

NextLoad ==
  \/ \E coin \in Coins : LoadCall(coin)
  \/ \E o \in HyperliquidOutcomes : LoadHyperliquid(o)
  \/ \E o \in DeriveOutcomes : LoadDerive(o)
  \/ \E o \in BinanceOutcomes : LoadBinance(o)

SpecLoad == Init /\ [][NextLoad]_vars

(* ---------------- the aligner (prepare_merged_timeseries) --------------- *)
(* A rate cell is None (NaN) or Some(<<num, den>>), the exact value         *)
(* num/den with den > 0: means are kept as fractions, not rounded.          *)
Frac(n, d) == <<n, d>>

FracEq(a, b) == a[1] * b[2] = b[1] * a[2]

FracLess(a, b) == a[1] * b[2] < b[1] * a[2]

FracAdd(a, b) == Frac(a[1] * b[2] + b[1] * a[2], a[2] * b[2])

FracSub(a, b) == Frac(a[1] * b[2] - b[1] * a[2], a[2] * b[2])

FracScale(a, k) == Frac(a[1] * k, a[2])

CellSub_ZeroFill(a, b) ==
  IF a = None /\ b = None THEN None
  ELSE Some(FracSub(IF a = None THEN Frac(0, 1) ELSE a[1],
                    IF b = None THEN Frac(0, 1) ELSE b[1]))

(* NaN propagates through arithmetic *)
CellSub(a, b) == IF a = None \/ b = None THEN None ELSE Some(FracSub(a[1], b[1]))

CellScale(a, k) == IF a = None THEN None ELSE Some(FracScale(a[1], k))

AlignTimes == 0..MaxAlignTime

AlignObs == [time : AlignTimes, rate : 0..MaxAlignRate, ok : {TRUE}]

(* The frames a client hands over: rows sorted by time, here with distinct *)
(* timestamps (the venue series of the data model).                        *)
AlignSeries ==
  {rs \in SeqsUpTo(AlignObs, MaxObs) :
     \A i, j \in 1..Len(rs) : i < j => rs[i].time < rs[j].time}

AlignInputs(cols) == {Frame(cols, ToFrameRows(rs)) : rs \in AlignSeries}

(* the label of the bin [t, t + freq) that holds time t *)
BinOf(t) == t - (t % Freq)

(* resample(freq): the bin labels from the bin of the first observation to *)
(* the bin of the last one, step freq                                      *)
GridOf(obs) ==
  {t \in BinOf(obs[1].time)..BinOf(obs[Len(obs)].time) : t % Freq = 0}

InBin_Closed(obs, t) == {i \in 1..Len(obs) : t <= obs[i].time /\ obs[i].time <= t + Freq}

(* the observations of the half-open bin [t, t + freq) *)
InBin(obs, t) == {i \in 1..Len(obs) : t <= obs[i].time /\ obs[i].time < t + Freq}

RECURSIVE SumRates(_, _)
SumRates(obs, I) ==
  IF I = {} THEN 0
  ELSE LET i == CHOOSE k \in I : TRUE
       IN obs[i].funding_rate + SumRates(obs, I \ {i})

MeanCell_Zero(obs, t) ==
  IF InBin(obs, t) = {} THEN Some(Frac(0, 1))
  ELSE Some(Frac(SumRates(obs, InBin(obs, t)), Cardinality(InBin(obs, t))))

(* .resample(freq).mean(): NaN for a bin with no observation *)
MeanCell(obs, t) ==
  IF InBin(obs, t) = {} THEN None
  ELSE Some(Frac(SumRates(obs, InBin(obs, t)), Cardinality(InBin(obs, t))))

(* the position in the sorted grid of label t, from 1 *)
GridIndex(obs, t) == ((t - BinOf(obs[1].time)) \div Freq) + 1

(* Resampler._upsample: when the observations are already spaced by freq   *)
(* (inferred_freq needs three or more) the series is kept and only         *)
(* relabelled with the bin labels                                          *)
EquallySampled(obs) ==
  /\ Len(obs) >= 3
  /\ \A i \in 1..(Len(obs) - 1) : obs[i + 1].time - obs[i].time = Freq

FfillCell_Nearest(obs, t) ==
  IF InBin(obs, t) = {} THEN None
  ELSE Some(Frac(obs[CHOOSE i \in InBin(obs, t) : TRUE].funding_rate, 1))

FfillCell_Mean(obs, t) == MeanCell(obs, t)

(* .resample(freq).ffill(): reindex on the bin labels, each label taking    *)
(* the last observation at or before it, NaN when there is none            *)
FfillCell(obs, t) ==
  IF EquallySampled(obs) THEN Some(Frac(obs[GridIndex(obs, t)].funding_rate, 1))
  ELSE LET before == {i \in 1..Len(obs) : obs[i].time <= t}
       IN IF before = {} THEN None
          ELSE Some(Frac(obs[CHOOSE i \in before : \A k \in before : k <= i].funding_rate, 1))

(* df is not None and not df.empty *)
HasData(df) == df.kind = "frame" /\ df.rows # <<>>

(* lines 69-94: the resampled frame of a sub-grid venue, label -> cell;    *)
(* no frame (the empty function) for a venue without data                  *)
ResampledMean(df) ==
  IF HasData(df) THEN [t \in GridOf(df.rows) |-> MeanCell(df.rows, t)] ELSE <<>>

(* lines 97-109: the resampled frame of Binance *)
ResampledFfill(df) ==
  IF HasData(df) THEN [t \in GridOf(df.rows) |-> FfillCell(df.rows, t)] ELSE <<>>

(* a venue's value at label t after the outer join: NaN off its own index *)
JoinedCell(column, t) == IF t \in DOMAIN column THEN column[t] ELSE None

RECURSIVE SortedTimes(_)
SortedTimes(T) ==
  IF T = {} THEN <<>>
  ELSE LET m == CHOOSE x \in T : \A y \in T : x <= y
       IN <<m>> \o SortedTimes(T \ {m})

OwnGrid(df) == IF HasData(df) THEN GridOf(df.rows) ELSE {}

MergedIndex_Inner(hl, dv, bn) ==
  SortedTimes({t \in OwnGrid(hl) \cup OwnGrid(dv) \cup OwnGrid(bn) :
                 /\ HasData(hl) => t \in OwnGrid(hl)
                 /\ HasData(dv) => t \in OwnGrid(dv)
                 /\ HasData(bn) => t \in OwnGrid(bn)})

(* lines 114-119: outer join of the frames' indexes, sorted *)
MergedIndex(hl, dv, bn) == SortedTimes(OwnGrid(hl) \cup OwnGrid(dv) \cup OwnGrid(bn))

(* the columns of the merged frame, in the order the code creates them *)
MergedColumns(hl, dv, bn) ==
  <<"time">>
    \o (IF HasData(hl) THEN <<"funding_hl">> ELSE <<>>)
    \o (IF HasData(dv) THEN <<"funding_derive">> ELSE <<>>)
    \o (IF HasData(bn) THEN <<"funding_binance">> ELSE <<>>)
    \o (IF HasData(hl) THEN <<"funding_hl_bps">> ELSE <<>>)
    \o (IF HasData(dv) THEN <<"funding_derive_bps">> ELSE <<>>)
    \o (IF HasData(bn) THEN <<"funding_binance_bps">> ELSE <<>>)
    \o (IF HasData(hl) /\ HasData(dv) THEN <<"spread_hl_derive_bps">> ELSE <<>>)
    \o (IF HasData(hl) /\ HasData(bn) THEN <<"spread_hl_binance_bps">> ELSE <<>>)
    \o (IF HasData(dv) /\ HasData(bn) THEN <<"spread_derive_binance_bps">> ELSE <<>>)

(* lines 121-140: one row of the merged frame; a cell of a column the frame *)
(* does not have is None                                                    *)
MergedRow(hl, dv, bn, t) ==
  LET h == JoinedCell(ResampledMean(hl), t)
      d == JoinedCell(ResampledMean(dv), t)
      b == JoinedCell(ResampledFfill(bn), t)
      hb == CellScale(h, BpsFactor)
      db == CellScale(d, BpsFactor)
      bb == CellScale(b, BpsFactor)
  IN [time |-> t,
      funding_hl |-> h, funding_derive |-> d, funding_binance |-> b,
      funding_hl_bps |-> hb, funding_derive_bps |-> db, funding_binance_bps |-> bb,
      spread_hl_derive_bps |-> CellSub(hb, db),
      spread_hl_binance_bps |-> CellSub(hb, bb),
      spread_derive_binance_bps |-> CellSub(db, bb)]

NoFramesToMerge_FewerThanTwo(hl, dv, bn) ==
  Cardinality({v \in {1, 2, 3} : HasData(<<hl, dv, bn>>[v])}) < 2

(* line 111: if not frames *)
NoFramesToMerge(hl, dv, bn) == ~HasData(hl) /\ ~HasData(dv) /\ ~HasData(bn)

(* lines 66-142 *)
PrepareMergedTimeseries(hl, dv, bn) ==
  IF NoFramesToMerge(hl, dv, bn) THEN Frame(<<>>, <<>>)
  ELSE LET idx == MergedIndex(hl, dv, bn)
       IN Frame(MergedColumns(hl, dv, bn),
                [k \in 1..Len(idx) |-> MergedRow(hl, dv, bn, idx[k])])

(* main.py:420 *)
Align ==
  /\ align_pc = "idle"
  /\ merged' = PrepareMergedTimeseries(df_hl, df_derive, df_binance)
  /\ align_pc' = "merged"
  /\ UNCHANGED <<pair_stats, clientvars, loadvars, framevars, predvars, enginevars>>

(* ------------- the Hyperliquid-vs-Derive view (main.py) ---------------- *)
HasColumn(df, c) == \E i \in 1..Len(df.columns) : df.columns[i] = c

IsPresent(r) == r.funding_hl_bps # None /\ r.funding_derive_bps # None

ZeroCell(c) == IF c = None THEN Some(Frac(0, 1)) ELSE c

ZeroFilled(r) ==
  [r EXCEPT !.funding_hl_bps = ZeroCell(@), !.funding_derive_bps = ZeroCell(@),
            !.spread_hl_derive_bps = CellSub(ZeroCell(r.funding_hl_bps),
                                             ZeroCell(r.funding_derive_bps))]

PairRows_ZeroFilled(df) == [k \in 1..Len(df.rows) |-> ZeroFilled(df.rows[k])]

(* line 154: df.dropna(subset=["funding_hl_bps", "funding_derive_bps"]) *)
PairRows(df) == SelectSeq(df.rows, IsPresent)

RECURSIVE ColumnSum(_, _)
ColumnSum(rs, c) ==
  IF rs = <<>> THEN Frac(0, 1) ELSE FracAdd(rs[1][c][1], ColumnSum(Tail(rs), c))

(* Series.mean() *)
ColumnMean(rs, c) == LET t == ColumnSum(rs, c) IN Frac(t[1], t[2] * Len(rs))

(* Series.max() *)
ColumnMax(rs, c) ==
  rs[CHOOSE i \in 1..Len(rs) : \A j \in 1..Len(rs) : ~FracLess(rs[i][c][1], rs[j][c][1])][c][1]

(* Series.min() *)
ColumnMin(rs, c) ==
  rs[CHOOSE i \in 1..Len(rs) : \A j \in 1..Len(rs) : ~FracLess(rs[j][c][1], rs[i][c][1])][c][1]

(* (Series > 0).mean() * 100.0 *)
PositiveShare(rs, c) ==
  Frac(100 * Cardinality({i \in 1..Len(rs) : FracLess(Frac(0, 1), rs[i][c][1])}), Len(rs))

(* lines 149-164 *)
HlDeriveStats(df) ==
  IF ~(/\ HasColumn(df, "time") /\ HasColumn(df, "funding_hl_bps")
       /\ HasColumn(df, "funding_derive_bps") /\ HasColumn(df, "spread_hl_derive_bps"))
    THEN [kind |-> "warning", msg |-> "not enough data"]
  ELSE LET pair == PairRows(df)
       IN IF pair = <<>> THEN [kind |-> "warning", msg |-> "no overlap"]
          ELSE [kind |-> "stats",
                n |-> Len(pair),
                avg_hl |-> ColumnMean(pair, "funding_hl_bps"),
                avg_derive |-> ColumnMean(pair, "funding_derive_bps"),
                avg_spread |-> ColumnMean(pair, "spread_hl_derive_bps"),
                max_pos_spread |-> ColumnMax(pair, "spread_hl_derive_bps"),
                max_neg_spread |-> ColumnMin(pair, "spread_hl_derive_bps"),
                positive_share |-> PositiveShare(pair, "spread_hl_derive_bps")]

(* main.py:422-431: the view is rendered only for a non-empty merged frame *)
RenderHlDeriveTab ==
  /\ align_pc = "merged"
  /\ merged.rows # <<>>
  /\ pair_stats' = HlDeriveStats(merged)
  /\ align_pc' = "rendered"
  /\ UNCHANGED <<merged, clientvars, loadvars, framevars, predvars, enginevars>>

InitAlign ==
  /\ ClientIdle
  /\ LoadIdle
  /\ AlignIdle
  /\ PredictedIdle
  /\ EngineIdle
  /\ df_hl \in AlignInputs(HyperliquidColumns)
  /\ df_derive \in AlignInputs(DeriveColumns)
  /\ df_binance \in AlignInputs(BinanceColumns)

NextAlign == Align \/ RenderHlDeriveTab

SpecAlign == InitAlign /\ [][NextAlign]_vars

(* --------------- get_predicted_funding (hyperliquid.py) ---------------- *)
MaxEntries == 2
MaxVenueEntries == 2

PredictedColumns == <<"asset", "venue", "funding_rate", "funding_rate_bps", "next_funding_time">>

(* the names the model uses, in the order Python compares strings (by code *)
(* point: "BTC" < "BinPerp" because "T" < "i")                             *)
NameOrder == <<"A", "B", "BTC", "BinPerp", "C", "ETH", "HlPerp">>

NameRank(name) == CHOOSE i \in 1..Len(NameOrder) : NameOrder[i] = name

NameLess(a, b) == NameRank(a) < NameRank(b)

PredictedAssets == {"BTC", "ETH"}

PredictedVenues == {"BinPerp", "HlPerp"}

(* One element of an asset's venue list.  shape:                           *)
(*   "ok"        [name, {"fundingRate": "<number>", "nextFundingTime": ms}] *)
(*   "not_pair"  not a list, not of length 2, or its second item no dict   *)
(*   "no_rate"   details without fundingRate (or null)                     *)
(*   "no_time"   details without nextFundingTime (or null)                 *)
(*   "bad_rate"  float(fundingRate) raises ValueError or TypeError         *)
(*   "bad_time"  int(nextFundingTime) raises ValueError or TypeError       *)
VenueEntries ==
  [shape : {"ok"}, venue : PredictedVenues, rate : Rates, time : {MaxTime}]
    \cup [shape : {"not_pair", "no_rate", "no_time", "bad_rate", "bad_time"},
          venue : {"HlPerp"}, rate : {0}, time : {MaxTime}]

(* One element of the payload.  shape:                                     *)
(*   "ok"            [asset, [venue entries]]                              *)
(*   "not_pair"      not a list, or not of length 2                        *)
(*   "venues_scalar" [asset, x] with x a JSON null or number               *)
AssetEntries ==
  [shape : {"ok"}, asset : PredictedAssets, venues : SeqsUpTo(VenueEntries, MaxVenueEntries)]
    \cup [shape : {"not_pair"}, asset : {"BTC"}, venues : {<<>>}]
    \cup [shape : {"venues_scalar"}, asset : {"BTC"}, venues : {<<>>}]

(* what POST /info can deliver: a failure status, a JSON object or the     *)
(* JSON array of asset entries                                             *)
PredictedPayloads ==
  {[shape |-> "http_error", entries |-> <<>>], [shape |-> "object", entries |-> <<>>]}
    \cup {[shape |-> "list", entries |-> es] : es \in SeqsUpTo(AssetEntries, MaxEntries)}

(* lines 57-58 *)
SkipsEntry(e) == e.shape = "not_pair"

(* line 63: iterating a value that is no container raises TypeError *)
VenuesNotIterable(e) == e.shape = "venues_scalar"

(* lines 64-69, 77-78 and 80-86 *)
SkipsVenueEntry(v) ==
  \/ v.shape = "not_pair"
  \/ v.shape \in {"no_rate", "no_time"}
  \/ v.shape \in {"bad_rate", "bad_time"}

(* lines 88-96 *)
PredictedRow(asset, v) ==
  [asset |-> asset, venue |-> v.venue, funding_rate |-> v.rate,
   funding_rate_bps |-> v.rate * BpsFactor, next_funding_time |-> v.time]

RECURSIVE VenueRows(_, _)
(* lines 63-96: the rows one asset entry appends *)
VenueRows(asset, vs) ==
  IF vs = <<>> THEN <<>>
  ELSE (IF SkipsVenueEntry(vs[1]) THEN <<>> ELSE <<PredictedRow(asset, vs[1])>>)
         \o VenueRows(asset, Tail(vs))

RECURSIVE PredictedRows(_)
(* lines 56-96 *)
PredictedRows(es) ==
  IF es = <<>> THEN <<>>
  ELSE (IF SkipsEntry(es[1]) THEN <<>> ELSE VenueRows(es[1].asset, es[1].venues))
         \o PredictedRows(Tail(es))

AssetVenueLess(a, b) ==
  \/ NameLess(a.asset, b.asset)
  \/ a.asset = b.asset /\ NameLess(a.venue, b.venue)

RECURSIVE InsertByAssetVenue(_, _)
InsertByAssetVenue(r, sorted) ==
  IF sorted = <<>> THEN <<r>>
  ELSE IF AssetVenueLess(r, sorted[1]) THEN <<r>> \o sorted
       ELSE <<sorted[1]>> \o InsertByAssetVenue(r, Tail(sorted))

RECURSIVE SortAssetVenueRec(_, _)
SortAssetVenueRec(rs, acc) ==
  IF rs = <<>> THEN acc ELSE SortAssetVenueRec(Tail(rs), InsertByAssetVenue(rs[1], acc))

(* line 110: df.sort_values(["asset", "venue"]).reset_index(drop=True) *)
SortByAssetVenue(rs) == SortAssetVenueRec(rs, <<>>)

(* lines 52-111 for a JSON array or object; the keys of an object are      *)
(* strings, which line 57 skips                                            *)
PredictedFrame(es) ==
  IF \E i \in 1..Len(es) : VenuesNotIterable(es[i]) THEN Raise("TypeError", "iterable")
  ELSE IF PredictedRows(es) = <<>> THEN EmptyFrame(PredictedColumns)
  ELSE Frame(PredictedColumns, SortByAssetVenue(PredictedRows(es)))

(* lines 51-52 and 192: the POST is sent *)
PredictedCall ==
  /\ pred_pc = "idle"
  /\ pred_pc' = "wait"
  /\ UNCHANGED <<pred_data, pred_result>>
  /\ UNCHANGED <<clientvars, loadvars, framevars, alignvars, enginevars>>

(* lines 193-194, then 54-111 *)
PredictedResponse(p) ==
  /\ pred_pc = "wait"
  /\ pred_data' = p
  /\ pred_result' = IF p.shape = "http_error" THEN Raise("HTTPStatusError", "status")
                    ELSE PredictedFrame(p.entries)
  /\ pred_pc' = "done"
  /\ UNCHANGED <<clientvars, loadvars, framevars, alignvars, enginevars>>

NextPredicted ==
  \/ PredictedCall
  \/ pred_pc = "wait" /\ \E p \in PredictedPayloads : PredictedResponse(p)

SpecPredicted == Init /\ [][NextPredicted]_vars

(* ------ the spread & ranking engine and the opportunity statistics ----- *)
(* (design sections 4.4 and 4.5).  A rate is a decimal fraction, held as   *)
(* the whole number of 0.0001 steps it is made of (0.0010 is 10).          *)
MaxEngineRate == 1
MaxSummaryRows == 2
MaxThreshold == 3
MaxCalls == 2

SettlementsPerDay == 3
DaysPerYear == 365
PercentFactor == 100

EngineVenues == {"A", "B", "C"}

EngineRates == (0 - MaxEngineRate)..MaxEngineRate

RateItems == [venue : EngineVenues, rate : EngineRates]

(* latest_rate_by_venue: the items of a mapping in the order the caller    *)
(* inserted them, no venue twice                                           *)
RateMaps ==
  {m \in SeqsUpTo(RateItems, Cardinality(EngineVenues)) :
     \A i, j \in 1..Len(m) : i # j => m[i].venue # m[j].venue}

(* the scenario of section 8: {A: 0.0010, B: 0.0003, C: -0.0002} *)
ScenarioRates ==
  <<[venue |-> "A", rate |-> 10], [venue |-> "B", rate |-> 3], [venue |-> "C", rate |-> 0 - 2]>>

ItemsOf(m) == {m[i] : i \in 1..Len(m)}

(* the same mapping, its items inserted in any order *)
InsertionOrders(m) ==
  {q \in [1..Len(m) -> ItemsOf(m)] : \A i, j \in 1..Len(m) : i # j => q[i] # q[j]}

RankBefore_Ascending(a, b) ==
  \/ a.rate < b.rate
  \/ a.rate = b.rate /\ NameLess(a.venue, b.venue)

RankBefore_InsertionOrder(a, b) == a.rate > b.rate

(* rank by rate descending; equal rates rank by venue name, lexically *)
RankBefore(a, b) ==
  \/ a.rate > b.rate
  \/ a.rate = b.rate /\ NameLess(a.venue, b.venue)

RECURSIVE InsertRanked(_, _)
InsertRanked(x, ranked) ==
  IF ranked = <<>> THEN <<x>>
  ELSE IF RankBefore(x, ranked[1]) THEN <<x>> \o ranked
       ELSE <<ranked[1]>> \o InsertRanked(x, Tail(ranked))

RECURSIVE RankRec(_, _)
RankRec(m, acc) ==
  IF m = <<>> THEN acc ELSE RankRec(Tail(m), InsertRanked(m[1], acc))

Ranked(m) == RankRec(m, <<>>)

(* apy = spread * settlements_per_day * 365 * 100, the spread a fraction *)
AnnualizedYield(spread) ==
  Frac(spread * SettlementsPerDay * DaysPerYear * PercentFactor, BpsFactor)

(* bestPair: None below two venues, else the head of the ranking in the    *)
(* long slot and its tail end in the short slot                            *)
bestPair(m) ==
  IF Len(m) < 2 THEN None
  ELSE LET r == Ranked(m)
           spread == r[1].rate - r[Len(r)].rate
       IN Some([long_venue |-> r[1].venue,
                short_venue |-> r[Len(r)].venue,
                spread |-> spread,
                annualized_yield |-> AnnualizedYield(spread),
                per_venue_latest_rate |->
                  [v \in {m[i].venue : i \in 1..Len(m)} |->
                     (CHOOSE x \in ItemsOf(m) : x.venue = v).rate]])

(* the first bestPair call of a behaviour *)
BestPairCall(m) ==
  /\ engine_pc = "idle"
  /\ bp_calls' = <<[input |-> m, result |-> bestPair(m)]>>
  /\ engine_pc' = "ranked"
  /\ UNCHANGED sum_calls
  /\ UNCHANGED <<clientvars, loadvars, framevars, alignvars, predvars>>

(* bestPair called again on the same mapping, built in any insertion order *)
BestPairAgain(m) ==
  /\ engine_pc = "ranked"
  /\ Len(bp_calls) < MaxCalls
  /\ bp_calls' = Append(bp_calls, [input |-> m, result |-> bestPair(m)])
  /\ UNCHANGED <<engine_pc, sum_calls>>
  /\ UNCHANGED <<clientvars, loadvars, framevars, alignvars, predvars>>

(* One row of an aligned frame: per venue a rate or None (absent) *)
SummaryRows == [EngineVenues -> {None} \cup {Some(r) : r \in EngineRates}]

SummaryFrames == SeqsUpTo(SummaryRows, MaxSummaryRows)

(* threshold_pct, in hundredths of a percent *)
Thresholds == {Frac(k, PercentFactor) : k \in 0..MaxThreshold}

PresentIn(row) == {v \in EngineVenues : row[v] # None}

RowQualifies_OnePresent(row) == Cardinality(PresentIn(row)) >= 1

(* a row takes part when at least two venues are present in it *)
RowQualifies(row) == Cardinality(PresentIn(row)) >= 2

(* row_spread = max(present rates) - min(present rates) *)
RowSpread(row) ==
  LET hi == CHOOSE v \in PresentIn(row) : \A w \in PresentIn(row) : row[w][1] <= row[v][1]
      lo == CHOOSE v \in PresentIn(row) : \A w \in PresentIn(row) : row[v][1] <= row[w][1]
  IN row[hi][1] - row[lo][1]

(* the row's spread in percent *)
RowSpreadPct(row) == Frac(RowSpread(row) * PercentFactor, BpsFactor)

QualifyingRows(frame) == {k \in 1..Len(frame) : RowQualifies(frame[k])}

RECURSIVE SpreadPctSum(_, _)
SpreadPctSum(frame, K) ==
  IF K = {} THEN Frac(0, 1)
  ELSE LET k == CHOOSE x \in K : TRUE
       IN FracAdd(RowSpreadPct(frame[k]), SpreadPctSum(frame, K \ {k}))

(* summarize: (0, 0.0, 0.0) when no row qualifies *)
summarize(frame, threshold_pct) ==
  LET K == QualifyingRows(frame)
      total == SpreadPctSum(frame, K)
  IN IF K = {} THEN [opportunities_found |-> 0,
                     avg_spread_pct |-> Frac(0, 1), max_spread_pct |-> Frac(0, 1)]
     ELSE [opportunities_found |->
             Cardinality({k \in K : ~FracLess(RowSpreadPct(frame[k]), threshold_pct)}),
           avg_spread_pct |-> Frac(total[1], total[2] * Cardinality(K)),
           max_spread_pct |->
             RowSpreadPct(frame[CHOOSE k \in K :
               \A j \in K : ~FracLess(RowSpreadPct(frame[k]), RowSpreadPct(frame[j]))])]

(* the first summarize call of a behaviour *)
SummarizeCall(frame, threshold_pct) ==
  /\ engine_pc = "idle"
  /\ sum_calls' = <<[frame |-> frame, threshold_pct |-> threshold_pct,
                     result |-> summarize(frame, threshold_pct)]>>
  /\ engine_pc' = "summarized"
  /\ UNCHANGED bp_calls
  /\ UNCHANGED <<clientvars, loadvars, framevars, alignvars, predvars>>

(* summarize called again on the same frame with another threshold *)
SummarizeAgain(threshold_pct) ==
  /\ engine_pc = "summarized"
  /\ Len(sum_calls) < MaxCalls
  /\ sum_calls' = Append(sum_calls,
       [frame |-> sum_calls[1].frame, threshold_pct |-> threshold_pct,
        result |-> summarize(sum_calls[1].frame, threshold_pct)])
  /\ UNCHANGED <<engine_pc, bp_calls>>
  /\ UNCHANGED <<clientvars, loadvars, framevars, alignvars, predvars>>

NextEngine ==
  \/ engine_pc = "idle" /\ \E m \in RateMaps \cup {ScenarioRates} : BestPairCall(m)
  \/ engine_pc = "ranked" /\ \E m \in InsertionOrders(bp_calls[1].input) : BestPairAgain(m)
  \/ engine_pc = "idle" /\ \E f \in SummaryFrames, th \in Thresholds : SummarizeCall(f, th)
  \/ \E th \in Thresholds : SummarizeAgain(th)

SpecEngine == Init /\ [][NextEngine]_vars

(* ===================== properties of the history fetch ================== *)
IsBinance == venue = "binance"

Answered == payloads # <<>> /\ Len(payloads) = Len(requests)

LastPayload == payloads[Len(payloads)]

TimesOf(rs) == {rs[i].time : i \in 1..Len(rs)}

RowsOf(rs) == {rs[i] : i \in 1..Len(rs)}

RECURSIVE AllReceivedRows(_)
AllReceivedRows(ps) ==
  IF ps = <<>> THEN <<>>
  ELSE (IF ps[1].shape \in {"list", "envelope"} THEN ps[1].rows ELSE <<>>)
         \o AllReceivedRows(Tail(ps))

(* C1: in Binance pagination a request is never followed by a request whose *)
(* startTime is not greater than its own: a full batch that does not move   *)
(* the start forward ends the pagination instead of causing a new request.  *)
C1_StalledStartStops ==
  IsBinance =>
    \A i \in 2..Len(requests) :
      requests[i - 1].startTime # None =>
        requests[i].startTime[1] > requests[i - 1].startTime[1]

(* C2: with an end time given, no Binance request carries a startTime       *)
(* greater than end_time_ms, and a full batch whose maximum fundingTime + 1 *)
(* exceeds end_time_ms ends the call with a frame of the rows gathered.     *)
C2_NoRequestPastEnd ==
  (IsBinance /\ args.end # None) =>
    /\ \A i \in 1..Len(requests) :
         requests[i].startTime # None => requests[i].startTime[1] <= args.end[1]
    /\ (/\ Answered
        /\ LastPayload.shape = "list"
        /\ LastPayload.rows # <<>>
        /\ \E t \in TimesOf(LastPayload.rows) : t + 1 > args.end[1])
         => (pc = "done" /\ result.kind = "frame" /\ Len(result.rows) = Len(rows))

C2_Witness ==
  /\ IsBinance
  /\ pc = "done"
  /\ args.end # None
  /\ Len(requests) = 2
  /\ Len(payloads) = 2
  /\ LastPayload.shape = "list"
  /\ Len(LastPayload.rows) = args.limit
  /\ \E t \in TimesOf(LastPayload.rows) : t + 1 > args.end[1]
  /\ result.kind = "frame"

(* C3: in Binance pagination a request after the first is issued only after *)
(* a batch of exactly `limit` rows, and a batch with fewer than `limit`     *)
(* rows (an empty one included) ends the call: no request follows it.       *)
C3_RequestOnlyAfterFullBatch ==
  IsBinance =>
    /\ \A i \in 2..Len(requests) :
         /\ payloads[i - 1].shape = "list"
         /\ Len(payloads[i - 1].rows) = args.limit
    /\ (Answered /\ LastPayload.shape = "list" /\ Len(LastPayload.rows) < args.limit)
         => (pc = "done" /\ result.kind = "frame")

C3_Witness ==
  /\ IsBinance
  /\ pc = "done"
  /\ Len(requests) = 2
  /\ Len(payloads) = 2
  /\ LastPayload.shape = "list"
  /\ LastPayload.rows # <<>>
  /\ Len(LastPayload.rows) < args.limit

(* C4: every Binance request after the first carries startTime = (maximum   *)
(* fundingTime over the rows of the preceding batch) + 1.                   *)
C4_NextStartIsBatchMaxPlusOne ==
  IsBinance =>
    \A i \in 2..Len(requests) :
      /\ requests[i].startTime # None
      /\ (requests[i].startTime[1] - 1) \in TimesOf(payloads[i - 1].rows)
      /\ \A t \in TimesOf(payloads[i - 1].rows) : t <= requests[i].startTime[1] - 1

C4_Witness ==
  /\ IsBinance
  /\ Len(requests) = 2
  /\ Len(payloads[1].rows) = 2
  /\ payloads[1].rows[2].time < payloads[1].rows[1].time
  /\ requests[2].startTime = Some(payloads[1].rows[1].time + 1)

(* C5: the frame returned by the Binance fetch holds no two rows with the   *)
(* same timestamp.                                                          *)
C5_NoDuplicateTimestamps ==
  (IsBinance /\ pc = "done" /\ result.kind = "frame") =>
    \A i, j \in 1..Len(result.rows) :
      i # j => result.rows[i].time # result.rows[j].time

(* C6: the rows of the frame returned by any of the three clients are in    *)
(* non-decreasing order of timestamp.                                       *)
C6_RowsSortedByTime ==
  (pc = "done" /\ result.kind = "frame") =>
    \A i \in 1..(Len(result.rows) - 1) :
      result.rows[i].time <= result.rows[i + 1].time

C6_Witness ==
  /\ IsBinance
  /\ pc = "done"
  /\ result.kind = "frame"
  /\ Len(payloads) = 2
  /\ Len(rows) >= 2
  /\ rows[1].time > rows[Len(rows)].time
  /\ result.rows[1].time < result.rows[Len(rows)].time

(* C7: the frame returned by the Binance fetch holds exactly the rows of    *)
(* the batches received during the call: every received row is in it, every *)
(* row in it was received, and it has as many rows as were received.        *)
C7_ResultIsAllBatches ==
  (IsBinance /\ pc = "done" /\ result.kind = "frame") =>
    /\ RowsOf(result.rows) = {ToFrameRow(r) : r \in RowsOf(AllReceivedRows(payloads))}
    /\ Len(result.rows) = Len(AllReceivedRows(payloads))

C7_Witness ==
  /\ IsBinance
  /\ pc = "done"
  /\ result.kind = "frame"
  /\ Len(payloads) = 2
  /\ payloads[2].shape = "list"
  /\ payloads[2].rows # <<>>
  /\ RowsOf(payloads[1].rows) \cap RowsOf(payloads[2].rows) = {}
  /\ Len(result.rows) = Len(payloads[1].rows) + Len(payloads[2].rows)

CanonicalColumns ==
  IF venue = "binance" THEN BinanceColumns
  ELSE IF venue = "hyperliquid" THEN HyperliquidColumns
  ELSE DeriveColumns

WellShaped(p) ==
  IF venue = "derive" THEN p.shape = "envelope" ELSE p.shape = "list"

(* C8: when the upstream answers with a well-formed payload holding no row, *)
(* each client returns a frame with no rows and the venue's canonical       *)
(* columns, and raises nothing.                                             *)
C8_NoRowsGivesEmptyTypedFrame ==
  (/\ pc = "done"
   /\ payloads # <<>>
   /\ \A i \in 1..Len(payloads) : WellShaped(payloads[i]) /\ payloads[i].rows = <<>>)
    => /\ result.kind = "frame"
       /\ result.rows = <<>>
       /\ result.columns = CanonicalColumns

C8_Witness ==
  /\ venue = "derive"
  /\ pc = "done"
  /\ payloads = <<Payload("envelope", <<>>)>>
  /\ result.kind = "frame"
  /\ result.columns = DeriveColumns

StartAfterEnd == args.start # None /\ args.end # None /\ args.start[1] > args.end[1]

OtherArgsValid ==
  IF IsBinance THEN args.limit >= 1 /\ args.limit <= 1000
  ELSE args.start[1] >= 0

(* C9: a fetch of any client called with start > end ends by raising        *)
(* ValueError with no upstream request issued; the error is the range error *)
(* whenever the call's other arguments (limit, start >= 0) are valid.       *)
C9_StartAfterEndFailsFast ==
  (pc # "idle" /\ StartAfterEnd) =>
    /\ pc = "done"
    /\ result.kind = "raise"
    /\ result.exc = "ValueError"
    /\ requests = <<>>
    /\ OtherArgsValid => result.msg = "range"

C9_Witness ==
  /\ IsBinance
  /\ StartAfterEnd
  /\ OtherArgsValid
  /\ pc = "done"
  /\ result = Raise("ValueError", "range")
  /\ requests = <<>>

(* C10: a successful response whose payload has the wrong top-level type    *)
(* for the venue ends the fetch of every client by raising.                 *)
C10_WrongShapeRaises ==
  (pc = "done" /\ payloads # <<>> /\ LastPayload.shape # "http_error"
     /\ ~WellShaped(LastPayload))
    => result.kind = "raise"

RECURSIVE WellFormedOnly(_)
WellFormedOnly(rs) ==
  IF rs = <<>> THEN <<>>
  ELSE (IF rs[1].ok THEN <<rs[1]>> ELSE <<>>) \o WellFormedOnly(Tail(rs))

(* C11: a fetch that received a malformed row among its rows does not       *)
(* raise: it returns a frame holding exactly the well-formed rows received, *)
(* for each of the three clients.                                           *)
C11_MalformedRowDropped ==
  (/\ pc = "done"
   /\ payloads # <<>>
   /\ \E i \in 1..Len(AllReceivedRows(payloads)) : ~AllReceivedRows(payloads)[i].ok)
    => /\ result.kind = "frame"
       /\ RowsOf(result.rows)
            = {ToFrameRow(r) : r \in RowsOf(WellFormedOnly(AllReceivedRows(payloads)))}

(* C13: a Binance fetch in which a page request failed (transport or HTTP   *)
(* error, payload that is not a list) ends by raising that failure and      *)
(* returns no frame, whatever rows the earlier pages delivered.             *)
C13_FailedPageDiscardsRows ==
  (/\ IsBinance
   /\ Answered
   /\ LastPayload.shape # "list")
    => /\ pc = "done"
       /\ result.kind = "raise"
       /\ result.rows = <<>>
       /\ result.exc = IF LastPayload.shape = "http_error"
                         THEN "HTTPStatusError" ELSE "RuntimeError"

C13_Witness ==
  /\ IsBinance
  /\ pc = "done"
  /\ Len(payloads) = 2
  /\ rows # <<>>
  /\ LastPayload.shape = "http_error"
  /\ result.kind = "raise"

(* C12: a refresh cycle in which a venue's fetch failed still runs the      *)
(* fetches of all three venues and returns, delivering the frames of the    *)
(* venues that succeeded.                                                   *)
C12_OneFailureKeepsOthers ==
  (load_pc \in {"returned", "raised"} /\ attempted # {})
    => (attempted = AllVenues /\ load_pc = "returned")

(* ================== properties of the aligner and the view ============== *)
Aligned == align_pc \in {"merged", "rendered"}

SubGridVenues == {"hl", "derive"}

VenueDf(v) ==
  IF v = "hl" THEN df_hl ELSE IF v = "derive" THEN df_derive ELSE df_binance

RateCell(r, v) ==
  IF v = "hl" THEN r.funding_hl
  ELSE IF v = "derive" THEN r.funding_derive ELSE r.funding_binance

BpsCell(r, v) ==
  IF v = "hl" THEN r.funding_hl_bps
  ELSE IF v = "derive" THEN r.funding_derive_bps ELSE r.funding_binance_bps

SpreadCell(r, a, b) ==
  IF a = "hl" /\ b = "derive" THEN r.spread_hl_derive_bps
  ELSE IF a = "hl" /\ b = "binance" THEN r.spread_hl_binance_bps
  ELSE r.spread_derive_binance_bps

VenuePairs == {<<"hl", "derive">>, <<"hl", "binance">>, <<"derive", "binance">>}

WithData == {v \in {"hl", "derive", "binance"} : VenueDf(v).rows # <<>>}

(* the raw observations of venue v with timestamp in [t, t + freq) *)
RawInCell(v, t) ==
  {i \in 1..Len(VenueDf(v).rows) :
     VenueDf(v).rows[i].time >= t /\ VenueDf(v).rows[i].time < t + Freq}

RECURSIVE RawRateSum(_, _)
RawRateSum(v, I) ==
  IF I = {} THEN 0
  ELSE LET i == CHOOSE k \in I : TRUE
       IN VenueDf(v).rows[i].funding_rate + RawRateSum(v, I \ {i})

(* C14: whenever fewer than two venues supplied any data the aligner        *)
(* returns the explicitly empty frame (no rows, no columns).                *)
C14_FewerThanTwoVenuesGivesEmpty ==
  (Aligned /\ Cardinality(WithData) < 2)
    => (merged.rows = <<>> /\ merged.columns = <<>>)

(* C15: when Binance supplied data, every row of the aligned frame holds in *)
(* its Binance cell the most recent raw Binance observation at or before    *)
(* the row's timestamp, and the cell is absent only if there is none.       *)
C15_BinanceCellIsLatestObservation ==
  (Aligned /\ "binance" \in WithData) =>
    \A k \in 1..Len(merged.rows) :
      LET t == merged.rows[k].time
          before == {i \in 1..Len(df_binance.rows) : df_binance.rows[i].time <= t}
      IN IF before = {} THEN merged.rows[k].funding_binance = None
         ELSE /\ merged.rows[k].funding_binance # None
              /\ \E i \in before :
                   /\ \A j \in before : df_binance.rows[j].time <= df_binance.rows[i].time
                   /\ FracEq(merged.rows[k].funding_binance[1],
                             Frac(df_binance.rows[i].funding_rate, 1))

(* C16: every present cell of a sub-grid venue (Hyperliquid, Derive) at     *)
(* grid time t equals the arithmetic mean of exactly the venue's raw        *)
(* observations with timestamp in [t, t + freq); with a single observation  *)
(* in the interval the cell equals that observation.                        *)
C16_SubGridCellIsMeanOfItsInterval ==
  Aligned =>
    \A k \in 1..Len(merged.rows) : \A v \in SubGridVenues :
      LET c == RateCell(merged.rows[k], v)
          I == RawInCell(v, merged.rows[k].time)
      IN c # None =>
           /\ I # {}
           /\ c[1][1] * Cardinality(I) = RawRateSum(v, I) * c[1][2]
           /\ Cardinality(I) = 1 =>
                \A i \in I : c[1] = Frac(VenueDf(v).rows[i].funding_rate, 1)

C16_Witness ==
  /\ Aligned
  /\ \E k \in 1..Len(merged.rows) :
       /\ Cardinality(RawInCell("hl", merged.rows[k].time)) = 2
       /\ merged.rows[k].funding_hl = Some(Frac(1, 2))
  /\ \E k \in 1..Len(merged.rows) :
       /\ Cardinality(RawInCell("derive", merged.rows[k].time)) = 1
       /\ merged.rows[k].funding_derive = Some(Frac(1, 1))

(* C17: a cell of a sub-grid venue whose interval [t, t + freq) holds no    *)
(* raw observation of that venue is absent: not 0, not a neighbour's value. *)
C17_EmptyIntervalIsAbsent ==
  Aligned =>
    \A k \in 1..Len(merged.rows) : \A v \in SubGridVenues :
      RawInCell(v, merged.rows[k].time) = {}
        => (RateCell(merged.rows[k], v) = None /\ BpsCell(merged.rows[k], v) = None)

C17_Witness ==
  /\ Aligned
  /\ Len(merged.rows) = 3
  /\ merged.rows[1].funding_hl # None
  /\ merged.rows[2].funding_hl = None
  /\ merged.rows[3].funding_hl # None
  /\ RawInCell("hl", merged.rows[2].time) = {}

(* C18: in every row, for every pair of venues (A, B) that both have a      *)
(* column, spread_A_B_bps is present exactly when rate_A and rate_B are     *)
(* both present, and then equals rate_A_bps - rate_B_bps.                   *)
C18_SpreadPresentIffBothPresent ==
  Aligned =>
    \A k \in 1..Len(merged.rows) : \A p \in VenuePairs :
      LET r == merged.rows[k]
          a == RateCell(r, p[1])
          b == RateCell(r, p[2])
          sp == SpreadCell(r, p[1], p[2])
      IN ({p[1], p[2]} \subseteq WithData) =>
           /\ sp # None <=> (a # None /\ b # None)
           /\ sp # None =>
                sp[1][1] * a[1][2] * b[1][2]
                  = BpsFactor * (a[1][1] * b[1][2] - b[1][1] * a[1][2]) * sp[1][2]

C18_Witness ==
  /\ Aligned
  /\ WithData = {"hl", "derive", "binance"}
  /\ \E k \in 1..Len(merged.rows) :
       /\ merged.rows[k].funding_hl # None
       /\ merged.rows[k].funding_binance = None
       /\ merged.rows[k].spread_hl_binance_bps = None
  /\ \E k \in 1..Len(merged.rows) :
       /\ merged.rows[k].funding_hl = Some(Frac(1, 2))
       /\ merged.rows[k].funding_derive = Some(Frac(1, 1))
       /\ merged.rows[k].spread_hl_derive_bps # None
       /\ FracEq(merged.rows[k].spread_hl_derive_bps[1], Frac(0 - 5000, 1))

(* the grid of venue v: the multiples of freq from the bin of its first     *)
(* observation to the bin of its last one                                   *)
VenueGrid(v) ==
  LET ts == {VenueDf(v).rows[i].time : i \in 1..Len(VenueDf(v).rows)}
  IN {t \in 0..MaxAlignTime :
        /\ t % Freq = 0
        /\ \E x \in ts : t + Freq > x
        /\ \E x \in ts : t <= x}

(* C19: the timestamps of the aligned frame are strictly increasing, each   *)
(* lies a multiple of freq after the first, and together they are the       *)
(* union of the per-venue grids.                                            *)
C19_IndexIsUnionOfVenueGrids ==
  Aligned =>
    /\ \A k \in 1..(Len(merged.rows) - 1) : merged.rows[k].time < merged.rows[k + 1].time
    /\ \A k \in 1..Len(merged.rows) : (merged.rows[k].time - merged.rows[1].time) % Freq = 0
    /\ {merged.rows[k].time : k \in 1..Len(merged.rows)} = UNION {VenueGrid(v) : v \in WithData}

C19_Witness ==
  /\ Aligned
  /\ VenueGrid("hl") = {0}
  /\ VenueGrid("derive") = {4}
  /\ VenueGrid("binance") = {2, 4}
  /\ Len(merged.rows) = 3

RECURSIVE BpsSumOver(_, _, _)
BpsSumOver(rs, I, c) ==
  IF I = {} THEN Frac(0, 1)
  ELSE LET i == CHOOSE k \in I : TRUE
       IN FracAdd(rs[i][c][1], BpsSumOver(rs, I \ {i}, c))

(* the rows of the aligned frame in which both rates are present *)
BothPresent ==
  {k \in 1..Len(merged.rows) :
     merged.rows[k].funding_hl # None /\ merged.rows[k].funding_derive # None}

MeanIsOver(m, I, c) == FracEq(FracScale(m, Cardinality(I)), BpsSumOver(merged.rows, I, c))

(* C20: the statistics of the Hyperliquid-vs-Derive view are those of the   *)
(* rows in which both venues' rates are present, and of no other row: the   *)
(* averages, the largest and smallest spread and the share of positive      *)
(* spreads; when there is no such row no statistic is produced.             *)
C20_PairStatsOverOverlapOnly ==
  (align_pc = "rendered") =>
    IF BothPresent = {} THEN pair_stats.kind = "warning"
    ELSE /\ pair_stats.kind = "stats"
         /\ pair_stats.n = Cardinality(BothPresent)
         /\ MeanIsOver(pair_stats.avg_hl, BothPresent, "funding_hl_bps")
         /\ MeanIsOver(pair_stats.avg_derive, BothPresent, "funding_derive_bps")
         /\ MeanIsOver(pair_stats.avg_spread, BothPresent, "spread_hl_derive_bps")
         /\ \E k \in BothPresent :
              FracEq(pair_stats.max_pos_spread, merged.rows[k].spread_hl_derive_bps[1])
         /\ \A k \in BothPresent :
              ~FracLess(pair_stats.max_pos_spread, merged.rows[k].spread_hl_derive_bps[1])
         /\ \E k \in BothPresent :
              FracEq(pair_stats.max_neg_spread, merged.rows[k].spread_hl_derive_bps[1])
         /\ \A k \in BothPresent :
              ~FracLess(merged.rows[k].spread_hl_derive_bps[1], pair_stats.max_neg_spread)
         /\ FracEq(pair_stats.positive_share,
                   Frac(100 * Cardinality({k \in BothPresent :
                          FracLess(Frac(0, 1), merged.rows[k].spread_hl_derive_bps[1])}),
                        Cardinality(BothPresent)))

C20_Witness ==
  /\ align_pc = "rendered"
  /\ pair_stats.kind = "stats"
  /\ pair_stats.n = 1
  /\ Len(merged.rows) = 3
  /\ merged.rows[1].funding_hl # None
  /\ merged.rows[1].funding_derive = None
  /\ merged.rows[2].funding_hl = None
  /\ merged.rows[2].funding_derive = None
  /\ BothPresent = {3}
  /\ FracLess(Frac(0, 1), pair_stats.avg_spread)
  /\ FracEq(pair_stats.positive_share, Frac(100, 1))

(* ================= further properties of Binance pagination ============= *)
(* every row of every batch received so far is at or after the startTime   *)
(* of the request it answers                                               *)
WellBehavedUpstream ==
  \A k \in 1..Len(payloads) :
    requests[k].startTime # None =>
      \A t \in TimesOf(payloads[k].rows) : t >= requests[k].startTime[1]

(* C24: in a Binance fetch with end_time_ms given whose batches so far hold *)
(* only rows at or after their request's startTime, the startTime values of *)
(* successive requests strictly increase, the number of requests is at most *)
(* end_time_ms - start_time_ms + 1 when start_time_ms <= end_time_ms is     *)
(* given (a start after the end is refused before any request), and no     *)
(* funding time is returned by two different pages.                         *)
C24_StartsIncreaseAndPagesDisjoint ==
  (IsBinance /\ args.end # None /\ WellBehavedUpstream) =>
    /\ \A i \in 2..Len(requests) :
         /\ requests[i].startTime # None
         /\ requests[i - 1].startTime # None
              => requests[i - 1].startTime[1] < requests[i].startTime[1]
    /\ (args.start # None /\ args.start[1] <= args.end[1])
         => Len(requests) <= args.end[1] - args.start[1] + 1
    /\ \A i, j \in 1..Len(payloads) :
         i < j => TimesOf(payloads[i].rows) \cap TimesOf(payloads[j].rows) = {}

C24_Witness ==
  /\ IsBinance
  /\ pc = "done"
  /\ args.start # None
  /\ args.end # None
  /\ WellBehavedUpstream
  /\ Len(requests) = 2
  /\ Len(requests) = args.end[1] - args.start[1] + 1
  /\ Len(payloads) = 2
  /\ payloads[2].rows # <<>>
  /\ result.kind = "frame"

(* C27: a Binance call with limit < 1 or limit > 1000 raises the limit      *)
(* ValueError without any request, also when start_time_ms > end_time_ms:   *)
(* the limit check comes before the range check.                            *)
C27_LimitCheckedFirst ==
  (IsBinance /\ (args.limit < 1 \/ args.limit > MaxAllowedLimit)) =>
    /\ pc = "done"
    /\ result = Raise("ValueError", "limit")
    /\ requests = <<>>

C27_Witness ==
  /\ IsBinance
  /\ pc = "done"
  /\ args.limit > MaxAllowedLimit
  /\ args.start # None
  /\ args.end # None
  /\ args.start[1] > args.end[1]
  /\ result.exc = "ValueError"
  /\ requests = <<>>

(* C28: in a Binance fetch with a start or an end given, every request      *)
(* carries the caller's symbol, limit and end_time_ms; two successive       *)
(* requests differ in startTime and in nothing else.                        *)
C28_OnlyStartTimeChanges ==
  (IsBinance /\ (args.start # None \/ args.end # None)) =>
    /\ \A k \in 1..Len(requests) :
         /\ requests[k].instrument = BinanceSymbol
         /\ requests[k].limit = Some(args.limit)
         /\ requests[k].endTime = args.end
    /\ \A k \in 2..Len(requests) :
         requests[k] = [requests[k - 1] EXCEPT !.startTime = requests[k].startTime]

C28_Witness ==
  /\ IsBinance
  /\ args.end # None
  /\ Len(requests) = 2
  /\ requests[1].startTime # requests[2].startTime
  /\ requests[2].endTime = args.end
  /\ requests[2].limit = Some(args.limit)

(* C29: a Binance call with neither start_time_ms nor end_time_ms issues    *)
(* one request and no more, also when the batch has exactly `limit` rows:   *)
(* once answered the call is over, and a second request is only ever        *)
(* issued when a bound was given.                                           *)
C29_NoBoundsMeansOneRequest ==
  (IsBinance /\ args.start = None /\ args.end = None) =>
    /\ Len(requests) <= 1
    /\ (pc = "done" /\ args.limit >= 1 /\ args.limit <= MaxAllowedLimit)
         => Len(requests) = 1
    /\ Answered => (pc = "done" /\ requests[1].startTime = None /\ requests[1].endTime = None)

C29_Witness ==
  /\ IsBinance
  /\ args.start = None
  /\ args.end = None
  /\ pc = "done"
  /\ Len(requests) = 1
  /\ LastPayload.shape = "list"
  /\ Len(LastPayload.rows) = args.limit
  /\ result.kind = "frame"
  /\ Len(result.rows) = args.limit

(* C26: in the aligned frame a Binance cell is present only at a grid time  *)
(* from the bin of Binance's first observation to the bin of its last one   *)
(* (nowhere when Binance supplied no data), and a present cell is the rate  *)
(* of one raw Binance observation, not a mean of several and not a value    *)
(* between two of them.                                                     *)
C26_BinanceCellsAreRawWithinOwnRange ==
  Aligned =>
    \A k \in 1..Len(merged.rows) :
      LET t == merged.rows[k].time
          cell == merged.rows[k].funding_binance
          raw == df_binance.rows
      IN cell # None =>
           /\ "binance" \in WithData
           /\ t % Freq = 0
           /\ BinOf(raw[1].time) <= t
           /\ t <= BinOf(raw[Len(raw)].time)
           /\ \E i \in 1..Len(raw) : FracEq(cell[1], Frac(raw[i].funding_rate, 1))

C26_Witness ==
  /\ Aligned
  /\ Len(df_binance.rows) = 2
  /\ df_binance.rows[1].funding_rate # df_binance.rows[2].funding_rate
  /\ BinOf(df_binance.rows[1].time) = BinOf(df_binance.rows[2].time)
  /\ Len(merged.rows) = 3
  /\ merged.rows[1].funding_binance = None
  /\ merged.rows[2].funding_binance # None
  /\ merged.rows[3].funding_binance = None

(* ================== properties of get_predicted_funding ================= *)
(* the positions <<i, j>> of the well-formed (asset, venue) entries *)
WellFormedAt(es) ==
  {<<i, j>> \in (1..Len(es)) \X (1..MaxVenueEntries + 1) :
     /\ es[i].shape = "ok"
     /\ j <= Len(es[i].venues)
     /\ es[i].venues[j].shape = "ok"}

RowAt(es, ij) ==
  [asset |-> es[ij[1]].asset,
   venue |-> es[ij[1]].venues[ij[2]].venue,
   funding_rate |-> es[ij[1]].venues[ij[2]].rate,
   funding_rate_bps |-> es[ij[1]].venues[ij[2]].rate * BpsFactor,
   next_funding_time |-> es[ij[1]].venues[ij[2]].time]

(* C25: get_predicted_funding answers a JSON array in which some entries    *)
(* are malformed with a frame that holds one row for every well-formed      *)
(* (asset, venue) entry and no other row, sorted by asset, then venue; the  *)
(* frame is the empty typed frame when no entry is well-formed.             *)
C25_MalformedEntriesSkipped ==
  (pred_pc = "done" /\ pred_data.shape = "list") =>
    LET es == pred_data.entries
        wf == WellFormedAt(es)
        rs == pred_result.rows
    IN /\ pred_result.kind = "frame"
       /\ pred_result.columns = PredictedColumns
       /\ Len(rs) = Cardinality(wf)
       /\ \A r \in {RowAt(es, ij) : ij \in wf} :
            Cardinality({k \in 1..Len(rs) : rs[k] = r})
              = Cardinality({ij \in wf : RowAt(es, ij) = r})
       /\ \A k \in 1..(Len(rs) - 1) : ~AssetVenueLess(rs[k + 1], rs[k])

(* ========= properties of the ranking engine and the statistics ========== *)
RateOf(m, v) == (CHOOSE x \in ItemsOf(m) : x.venue = v).rate

VenuesOf(m) == {m[i].venue : i \in 1..Len(m)}

(* C21: every bestPair call on a mapping of two or more venues returns a    *)
(* pair whose long venue has the highest rate of the mapping and whose      *)
(* short venue has the lowest, with spread = rate_long - rate_short >= 0;   *)
(* on {A: 0.0010, B: 0.0003, C: -0.0002} it is long A, short C, spread      *)
(* 0.0012 (12 steps of 0.0001).                                             *)
C21_HighestLongLowestShort ==
  \A c \in 1..Len(bp_calls) :
    LET m == bp_calls[c].input
        res == bp_calls[c].result
    IN Len(m) >= 2 =>
         /\ res # None
         /\ res[1].long_venue \in VenuesOf(m)
         /\ res[1].short_venue \in VenuesOf(m)
         /\ \A v \in VenuesOf(m) :
              /\ RateOf(m, v) <= RateOf(m, res[1].long_venue)
              /\ RateOf(m, res[1].short_venue) <= RateOf(m, v)
         /\ res[1].spread = RateOf(m, res[1].long_venue) - RateOf(m, res[1].short_venue)
         /\ res[1].spread >= 0
         /\ ItemsOf(m) = ItemsOf(ScenarioRates) =>
              /\ res[1].long_venue = "A"
              /\ res[1].short_venue = "C"
              /\ res[1].spread = 12

C21_Witness ==
  /\ engine_pc = "ranked"
  /\ Len(bp_calls) = 2
  /\ bp_calls[1].input = ScenarioRates
  /\ bp_calls[2].input[1].venue = "C"
  /\ bp_calls[2].result # None
  /\ bp_calls[2].result[1].long_venue = "A"
  /\ bp_calls[2].result[1].short_venue = "C"
  /\ bp_calls[2].result[1].spread = 12

(* C22: two bestPair calls on the same mapping, whatever the insertion      *)
(* order of its items, return the same BestPair; among several venues with  *)
(* the highest rate the long venue is the first by name, and among several  *)
(* with the lowest rate the short venue is the one the name order of the    *)
(* ranking puts last.                                                       *)
C22_TiesDecidedByVenueName ==
  /\ \A c, d \in 1..Len(bp_calls) :
       ItemsOf(bp_calls[c].input) = ItemsOf(bp_calls[d].input)
         => bp_calls[c].result = bp_calls[d].result
  /\ \A c \in 1..Len(bp_calls) :
       LET m == bp_calls[c].input
           res == bp_calls[c].result
       IN res # None =>
            \A v \in VenuesOf(m) :
              /\ RateOf(m, v) = RateOf(m, res[1].long_venue)
                   => ~NameLess(v, res[1].long_venue)
              /\ RateOf(m, v) = RateOf(m, res[1].short_venue)
                   => ~NameLess(res[1].short_venue, v)

C22_Witness ==
  /\ engine_pc = "ranked"
  /\ Len(bp_calls) = 2
  /\ Len(bp_calls[1].input) = 3
  /\ bp_calls[1].input # bp_calls[2].input
  /\ bp_calls[1].input[1].venue = "B"
  /\ bp_calls[2].input[1].venue = "C"
  /\ \A i \in 1..3 : bp_calls[1].input[i].rate = 0
  /\ bp_calls[1].result # None
  /\ bp_calls[1].result[1].long_venue = "A"
  /\ bp_calls[2].result[1].short_venue = "C"

(* C23: for summarize calls on one frame, a call with a threshold at least  *)
(* as high as another's finds no more opportunities than the other; and no  *)
(* call counts more rows than the frame has rows with two or more venues    *)
(* present, so a row with fewer present venues is never counted.            *)
C23_OpportunitiesNonIncreasingInThreshold ==
  /\ \A c, d \in 1..Len(sum_calls) :
       (/\ sum_calls[c].frame = sum_calls[d].frame
        /\ ~FracLess(sum_calls[d].threshold_pct, sum_calls[c].threshold_pct))
         => sum_calls[d].result.opportunities_found
              <= sum_calls[c].result.opportunities_found
  /\ \A c \in 1..Len(sum_calls) :
       sum_calls[c].result.opportunities_found
         <= Cardinality({k \in 1..Len(sum_calls[c].frame) :
              Cardinality({v \in EngineVenues : sum_calls[c].frame[k][v] # None}) >= 2})

C23_Witness ==
  /\ engine_pc = "summarized"
  /\ Len(sum_calls) = 2
  /\ Len(sum_calls[1].frame) = 2
  /\ Cardinality({v \in EngineVenues : sum_calls[1].frame[1][v] # None}) = 1
  /\ Cardinality({v \in EngineVenues : sum_calls[1].frame[2][v] # None}) = 3
  /\ FracLess(sum_calls[1].threshold_pct, sum_calls[2].threshold_pct)
  /\ sum_calls[1].result.opportunities_found = 1
  /\ sum_calls[2].result.opportunities_found = 0

====
